---- MODULE Spec2Model ----
\* Model of the deployment event consumer printEvents (src/unnamed/part_001):
\* the retry wrapper around the feed request, the decoded record stream, the
\* deploy-mode status poller and the one-shot gates finish / callOnOpenOnce.
EXTENDS Integers, Sequences, FiniteSets, TLC

\* ---------------------------------------------------------------- bounds
MaxCounter == 2      \* records decoded during one invocation
MaxErrors == 1       \* stream / body 'error' events during one invocation

\* ------------------------------------------------------ program constants
Retries == 4                 \* retry(..., { retries: 4, ... })
ServerErrorFloor == 500      \* eventsRes.status < 500 bails

POSITIVE_INFINITY == MaxCounter + 1   \* above every counter value the model reaches

Statuses == {200, 404, 503}
Units == {0, 1}              \* unit counts a printEvent call returns
FindLimits == {0, 1, 2}      \* findOpts.limit (0: not given)
Buffered == {0, 1}           \* records the decoder has pushed past the one being handled
Events == {"stdout", "build-complete"}
Modes == {"deploy", "logs"}
PollOutcomes == {"READY", "BUILDING", "fail"}

NoError == "none"
PollError == "Response 500"
FetchError == "socket hang up"

VARIABLES
    mode, quiet, limit,        \* options of the invocation
    onOpenCalled, counter, o,  \* printEvents locals
    attempts, errors, lastErr, \* retry operation: attempts started, errors collected, the latest
    pc,                        \* "start" | "fetching" | "stream" | "done"
    result, resultErr,         \* the promise printEvents returns
    stream, pending,           \* decoder stream of the attempt, records buffered past end()
    poller,                    \* "none" | "timer" | "inflight"
    finishCalled,              \* finish gate of the attempt
    settles,                   \* resolve / reject calls on the attempt's promise
    refinished,                \* finish was called again after the gate had closed
    onOpenCount,               \* calls of the caller's onOpen
    fetchCount,                \* feed requests issued
    onRetryCount,              \* onRetry invocations
    eraseCalls, erased,        \* eraseLines writes, lines erased by the onRetry that just ran
    recs, fwd,                 \* records decoded in the attempt, indices forwarded to printEvent
    errCount, errInAttempt,    \* 'error' events handled, one seen live in this attempt
    successLogs,               \* "Success! Build complete" lines logged in the attempt
    bailAt                     \* fetchCount when bail ran (-1: not yet)

\* One call of findProjectsFromPath.
VARIABLES
    projects, path,            \* the arguments
    isWin,                     \* process.platform === 'win32'
    found                      \* the outcome of the call

printVars == <<mode, quiet, limit, onOpenCalled, counter, o, attempts, errors, lastErr, pc,
               result, resultErr, stream, pending, poller, finishCalled, settles,
               refinished, onOpenCount, fetchCount, onRetryCount, eraseCalls, erased,
               recs, fwd, errCount, errInAttempt,
               successLogs, bailAt>>

findVars == <<projects, path, isWin, found>>

\* One call of findRepoRoot.
VARIABLES
    files,                     \* the filesystem: path of every file that exists -> its content
    start,                     \* the argument
    current,                   \* the directory traverseUpDirectories has yielded
    rpc,                       \* "idle" | "loop" | "returned" | "threw"
    rootPath,                  \* what findRepoRoot returned
    yielded                    \* what a traverseUpDirectories consumed on its own has yielded

rootVars == <<files, start, current, rpc, rootPath, yielded>>

\* Calls of ensureRepoLink.
VARIABLES
    yes, overwrite,            \* EnsureRepoLinkOptions
    lpc,                       \* "idle" | "getRepoLink" | "confirm" | "selectOrg" |
                               \* "getRemoteUrls" | "fetch" | "select" | "create" | "done"
    repoLink,                  \* rootPath, repoConfig, repoConfigPath of the call
    remoteName,
    linkProjects,              \* projects: the Projects fetched for the repo URL
    detectedProjects,          \* directories of the locally detected projects
    selected, idx,             \* the checkbox answer, the index i of the create loop
    linkOutcome,               \* how the call settled
    prompts, networkCalls,     \* prompts shown, API requests made by the call
    detections,                \* detectProjects runs started by the call
    created,                   \* names passed to createProject by the call
    writes,                    \* files written by the call
    again                      \* this is a second call, after a call that returned a link

linkVars == <<yes, overwrite, lpc, repoLink, remoteName, linkProjects, detectedProjects,
              selected, idx, linkOutcome, prompts, networkCalls, detections, created,
              writes, again>>

vars == <<printVars, findVars, rootVars, linkVars>>

\* No call of findProjectsFromPath is under way.
NotCalled == [status |-> "idle", value |-> <<>>]

FindIdle == projects = <<>> /\ path = <<>> /\ isWin = FALSE /\ found = NotCalled

\* undefined, where a path is expected
UndefinedPath == <<>>

\* No call of findRepoRoot is under way, on an empty filesystem.
RootIdle ==
    /\ files = <<>> /\ start = UndefinedPath /\ current = UndefinedPath
    /\ rpc = "idle" /\ rootPath = UndefinedPath /\ yielded = <<>>

\* undefined, where a RepoProjectsConfig is expected
UndefinedConfig == [kind |-> "undefined"]

UndefinedLink ==
    [rootPath |-> UndefinedPath, repoConfig |-> UndefinedConfig,
     repoConfigPath |-> UndefinedPath]

Pending == [status |-> "pending", value |-> UndefinedLink, error |-> "none"]

\* The locals and the effect counters of a call of ensureRepoLink that has
\* not begun.
LinkLocalsFresh ==
    /\ repoLink = UndefinedLink /\ remoteName = "none"
    /\ linkProjects = <<>> /\ detectedProjects = <<>>
    /\ selected = <<>> /\ idx = 0
    /\ linkOutcome = Pending
    /\ prompts = 0 /\ networkCalls = 0 /\ detections = 0
    /\ created = <<>> /\ writes = <<>>

\* ensureRepoLink has not been called.
LinkIdle ==
    /\ yes = FALSE /\ overwrite = FALSE /\ lpc = "idle" /\ again = FALSE
    /\ LinkLocalsFresh

Cur ==
    [mode |-> mode, quiet |-> quiet, limit |-> limit,
     onOpenCalled |-> onOpenCalled, counter |-> counter, o |-> o,
     attempts |-> attempts, errors |-> errors, lastErr |-> lastErr, pc |-> pc,
     result |-> result, resultErr |-> resultErr,
     stream |-> stream, pending |-> pending, poller |-> poller,
     finishCalled |-> finishCalled, settles |-> settles,
     refinished |-> refinished, onOpenCount |-> onOpenCount,
     fetchCount |-> fetchCount, onRetryCount |-> onRetryCount,
     eraseCalls |-> eraseCalls, erased |-> erased,
     recs |-> recs, fwd |-> fwd,
     errCount |-> errCount, errInAttempt |-> errInAttempt,
     successLogs |-> successLogs, bailAt |-> bailAt]

Commit(s) ==
    /\ mode' = s.mode /\ quiet' = s.quiet /\ limit' = s.limit
    /\ onOpenCalled' = s.onOpenCalled /\ counter' = s.counter /\ o' = s.o
    /\ attempts' = s.attempts /\ errors' = s.errors /\ lastErr' = s.lastErr
    /\ pc' = s.pc
    /\ result' = s.result /\ resultErr' = s.resultErr
    /\ stream' = s.stream /\ pending' = s.pending /\ poller' = s.poller
    /\ finishCalled' = s.finishCalled /\ settles' = s.settles
    /\ refinished' = s.refinished /\ onOpenCount' = s.onOpenCount
    /\ fetchCount' = s.fetchCount /\ onRetryCount' = s.onRetryCount
    /\ eraseCalls' = s.eraseCalls /\ erased' = s.erased
    /\ recs' = s.recs /\ fwd' = s.fwd
    /\ errCount' = s.errCount /\ errInAttempt' = s.errInAttempt
    /\ successLogs' = s.successLogs /\ bailAt' = s.bailAt
    /\ UNCHANGED <<findVars, rootVars, linkVars>>

\* ------------------------------------------------------------- helpers
\* const limit = findOpts.limit || Number.POSITIVE_INFINITY
LimitOf(findLimit) == IF findLimit = 0 THEN POSITIVE_INFINITY ELSE findLimit

\* eventsRes.ok / pollRes.ok
ok(status) == status >= 200 /\ status <= 299

StatusError(status) == "Deployment events status " \o ToString(status)

\* Mutation of callOnOpenOnce: the onOpenCalled test is left out.
callOnOpenOnce_NoGate(s) ==
    [s EXCEPT !.onOpenCalled = TRUE, !.onOpenCount = @ + 1]

\* function callOnOpenOnce()
callOnOpenOnce(s) ==
    IF s.onOpenCalled THEN s
    ELSE [s EXCEPT !.onOpenCalled = TRUE, !.onOpenCount = @ + 1]


\* ------------------------------------------------------- retry wrapper
\* The errors the retry operation collects, kept as the running state of its
\* mainError() loop: the count of every message, and the error whose count was
\* the last to reach the highest count (the most frequent message, the later
\* one on a tie).
Messages == {StatusError(status) : status \in Statuses} \cup {PollError, FetchError}

NoErrors == [counts |-> [m \in Messages |-> 0], main |-> NoError, mainCount |-> 0, len |-> 0]

\* Mutation of pushError: a tie no longer moves mainError to the later error.
pushError_StrictMax(errs, err) ==
    LET count == errs.counts[err] + 1
        e1 == [errs EXCEPT !.counts[err] = count, !.len = @ + 1]
    IN IF count > errs.mainCount
       THEN [e1 EXCEPT !.main = err, !.mainCount = count]
       ELSE e1

pushError(errs, err) ==
    LET count == errs.counts[err] + 1
        e1 == [errs EXCEPT !.counts[err] = count, !.len = @ + 1]
    IN IF count >= errs.mainCount
       THEN [e1 EXCEPT !.main = err, !.mainCount = count]
       ELSE e1

mainError(errs) == errs.main

\* Mutation of onRetry: the erase no longer depends on quiet and o.
onRetry_AlwaysErase(s, err) ==
    [s EXCEPT !.onRetryCount = @ + 1, !.eraseCalls = @ + 1, !.erased = s.o + 1, !.o = 0]

\* Mutation of onRetry: the lines are erased but o is not reset.
onRetry_KeepO(s, err) ==
    LET s1 == [s EXCEPT !.onRetryCount = @ + 1]
    IN IF ~s1.quiet /\ s1.o # 0
       THEN [s1 EXCEPT !.eraseCalls = @ + 1, !.erased = s1.o + 1]
       ELSE s1

\* onRetry: (err) => { if (!quiet && o) { write(eraseLines(o + 1)); o = 0 } log(...) }
onRetry(s, err) ==
    LET s1 == [s EXCEPT !.onRetryCount = @ + 1]
    IN IF ~s1.quiet /\ s1.o # 0
       THEN [s1 EXCEPT !.eraseCalls = @ + 1, !.erased = s1.o + 1, !.o = 0]
       ELSE s1

\* Mutation of opRetry: one timeout too many.
opRetry_OneMore(s) == s.attempts <= Retries + 1

\* The retry operation has one timeout per allowed retry: { retries: 4 }.
\* Attempt number n has used n - 1 of them.
opRetry(s) == s.attempts <= Retries

\* The outer promise: the first settle wins.
rejectOuter(s, err) ==
    IF s.result = "pending"
    THEN [s EXCEPT !.result = "rejected", !.resultErr = err, !.pc = "done"]
    ELSE s

resolveOuter(s) ==
    IF s.result = "pending"
    THEN [s EXCEPT !.result = "resolved", !.pc = "done"]
    ELSE s

\* bail(err): reject the outer promise, no retry.
bail(s, err) == [rejectOuter(s, err) EXCEPT !.bailAt = s.fetchCount]

\* An attempt that threw or whose promise rejected: retry while a timeout is
\* left (onRetry runs once the next attempt is scheduled), else reject with
\* mainError().
retryOnError(s, err) ==
    LET s1 == [s EXCEPT !.errors = pushError(@, err), !.lastErr = err]
    IN IF opRetry(s1)
       THEN onRetry([s1 EXCEPT !.pc = "start"], err)
       ELSE rejectOuter(s1, mainError(s1.errors))

\* ------------------------------------------------ the attempt's promise
\* reject(error) / resolve() of new Promise((resolve, reject) => ...): only
\* the first call settles it.
reject(s, error) ==
    LET s1 == [s EXCEPT !.settles = Append(@, "rejected")]
    IN IF Len(s.settles) = 0 THEN retryOnError(s1, error) ELSE s1

resolve(s) ==
    LET s1 == [s EXCEPT !.settles = Append(@, "resolved")]
    IN IF Len(s.settles) = 0 THEN resolveOuter(s1) ELSE s1

\* stream.end(): the writable side is closed; buf records the decoder has
\* already pushed are still delivered.
streamEnd(s, buf) ==
    IF s.stream = "open" THEN [s EXCEPT !.stream = "ended", !.pending = buf] ELSE s

\* clearTimeout(poller): cancels a timer that has not fired yet.
clearTimeout(s) == [s EXCEPT !.poller = IF @ = "timer" THEN "none" ELSE @]

\* Mutation of finish: the finishCalled test is left out.
finish_NoGate(s, error) ==
    LET s1 == callOnOpenOnce([s EXCEPT !.finishCalled = TRUE])
        s3 == clearTimeout(s1)
    IN IF error # NoError THEN reject(s3, error) ELSE resolve(s3)

\* function finish(error)
finish(s, error) ==
    IF s.finishCalled THEN [s EXCEPT !.refinished = TRUE]
    ELSE LET s1 == callOnOpenOnce([s EXCEPT !.finishCalled = TRUE])
             s2 == IF s1.mode = "deploy" /\ error = NoError
                   THEN [s1 EXCEPT !.successLogs = @ + 1]
                   ELSE s1
             s3 == clearTimeout(s2)
         IN IF error # NoError THEN reject(s3, error) ELSE resolve(s3)

\* Mutation of onData: a record that is forwarded is handed to printEvent twice.
onData_ForwardTwice(s, event, units, callsOpen, buf) ==
    LET s1 == [s EXCEPT !.counter = @ + 1, !.recs = Append(@, event)]
    IN IF s1.counter = s1.limit
       THEN finish(streamEnd(s1, buf), NoError)
       ELSE IF event = "build-complete"
            THEN IF s1.mode = "deploy"
                 THEN finish(streamEnd(s1, buf), NoError)
                 ELSE s1
            ELSE [s1 EXCEPT !.o = @ + units + units,
                            !.fwd = @ \o <<Len(s1.recs), Len(s1.recs)>>]

\* Mutation of onData: build-complete is forwarded like any other record.
onData_ForwardAll(s, event, units, callsOpen, buf) ==
    LET s1 == [s EXCEPT !.counter = @ + 1, !.recs = Append(@, event)]
    IN IF s1.counter = s1.limit
       THEN finish(streamEnd(s1, buf), NoError)
       ELSE LET s2 == IF callsOpen THEN callOnOpenOnce(s1) ELSE s1
            IN [s2 EXCEPT !.o = @ + units, !.fwd = Append(@, Len(s1.recs))]

\* const onData = (data) => { ... }; printEvent returns units and may call the
\* callOnOpenOnce it is handed.
onData(s, event, units, callsOpen, buf) ==
    LET s1 == [s EXCEPT !.counter = @ + 1, !.recs = Append(@, event)]
    IN IF s1.counter = s1.limit
       THEN finish(streamEnd(s1, buf), NoError)
       ELSE IF event = "build-complete"
            THEN IF s1.mode = "deploy"
                 THEN finish(streamEnd(s1, buf), NoError)
                 ELSE s1
            ELSE LET s2 == IF callsOpen THEN callOnOpenOnce(s1) ELSE s1
                 IN [s2 EXCEPT !.o = @ + units, !.fwd = Append(@, Len(s1.recs))]

\* const onError = (err) => { if (finishCalled) return; o++; callOnOpenOnce(); log(...) }
onError(s) ==
    IF s.finishCalled THEN s
    ELSE callOnOpenOnce([s EXCEPT !.o = @ + 1, !.errInAttempt = TRUE])


\* -------------------------------------------------------------- actions
Init ==
    /\ mode \in Modes
    /\ quiet \in BOOLEAN
    /\ \E findLimit \in FindLimits : limit = LimitOf(findLimit)
    /\ onOpenCalled = FALSE /\ counter = 0 /\ o = 0
    /\ attempts = 0 /\ errors = NoErrors /\ lastErr = NoError
    /\ pc = "start"
    /\ result = "pending" /\ resultErr = NoError
    /\ stream = "none" /\ pending = 0 /\ poller = "none"
    /\ finishCalled = FALSE /\ settles = <<>> /\ refinished = FALSE
    /\ onOpenCount = 0 /\ fetchCount = 0 /\ onRetryCount = 0
    /\ eraseCalls = 0 /\ erased = 0
    /\ recs = <<>> /\ fwd = <<>>
    /\ errCount = 0 /\ errInAttempt = FALSE /\ successLogs = 0
    /\ bailAt = -1
    /\ FindIdle /\ RootIdle /\ LinkIdle

\* The retry operation starts an attempt: const eventsRes = await now._fetch(eventsUrl)
FeedRequest ==
    /\ pc = "start"
    /\ Commit([Cur EXCEPT !.attempts = @ + 1, !.fetchCount = @ + 1,
                           !.pc = "fetching", !.erased = 0])

\* The executor of the attempt's promise: a fresh stream, poller and finish gate.
openStream(s) ==
    [s EXCEPT !.pc = "stream", !.stream = "open", !.pending = 0,
              !.poller = IF s.mode = "deploy" THEN "timer" ELSE "none",
              !.finishCalled = FALSE, !.settles = <<>>, !.refinished = FALSE,
              !.recs = <<>>, !.fwd = <<>>, !.errInAttempt = FALSE,
              !.successLogs = 0]

\* Mutation of notOk: every non-ok status is thrown, none bails.
notOk_AlwaysThrow(s, status) ==
    retryOnError(callOnOpenOnce(s), StatusError(status))

\* The else branch of if (eventsRes.ok): bail below 500, throw from 500 up.
notOk(s, status) ==
    LET s1 == callOnOpenOnce(s)
        err == StatusError(status)
    IN IF status < ServerErrorFloor THEN bail(s1, err) ELSE retryOnError(s1, err)

\* The feed request answers.
FeedResponse(status) ==
    /\ pc = "fetching"
    /\ Commit(IF ok(status) THEN openStream(Cur) ELSE notOk(Cur, status))

\* The feed request throws (connection error): the attempt function rejects.
FeedThrow ==
    /\ pc = "fetching"
    /\ Commit(retryOnError(Cur, FetchError))

\* stream.on('data', onData)
StreamData(event, units, callsOpen, buf) ==
    /\ stream = "open" \/ (stream = "ended" /\ pending > 0)
    /\ counter < MaxCounter
    /\ LET s == IF stream = "ended" THEN [Cur EXCEPT !.pending = @ - 1] ELSE Cur
       IN Commit(onData(s, event, units, callsOpen, buf))

\* stream.on('end', finish)
StreamEnd ==
    /\ stream = "open" \/ (stream = "ended" /\ pending = 0)
    /\ Commit(finish([Cur EXCEPT !.stream = "closed"], NoError))

\* stream.on('error', onError); readable.on('error', onError). Whether the
\* stream goes on delivering after an error depends on the stream
\* implementation: both outcomes are kept.
StreamError(goesOn) ==
    /\ stream \in {"open", "ended"}
    /\ errCount < MaxErrors
    /\ LET s == [Cur EXCEPT !.errCount = @ + 1,
                            !.stream = IF @ = "open" /\ ~goesOn THEN "broken" ELSE @]
       IN Commit(onError(s))

\* The 5000 ms timer of startPoller fires: await now._fetch(pollUrl)
PollTimerFire ==
    /\ poller = "timer"
    /\ Commit([Cur EXCEPT !.poller = "inflight"])

\* Mutation of pollCallback: the catch branch calls finish() without the error.
pollCallback_ErrorDropped(s, outcome) ==
    IF outcome = "BUILDING"
    THEN [s EXCEPT !.poller = "timer"]
    ELSE [finish(streamEnd(s, 0), NoError) EXCEPT !.poller = "none"]

\* The rest of the timer callback once the poll request has answered.
pollCallback(s, outcome) ==
    IF outcome = "READY"
    THEN [finish(streamEnd(s, 0), NoError) EXCEPT !.poller = "none"]
    ELSE IF outcome = "BUILDING"
         THEN [s EXCEPT !.poller = "timer"]
         ELSE [finish(streamEnd(s, 0), PollError) EXCEPT !.poller = "none"]

PollResponse(outcome) ==
    /\ poller = "inflight"
    /\ Commit(pollCallback(Cur, outcome))

Next ==
    \/ FeedRequest
    \/ \E status \in Statuses : FeedResponse(status)
    \/ FeedThrow
    \/ \E event \in Events, units \in Units, callsOpen \in BOOLEAN,
          buf \in Buffered : StreamData(event, units, callsOpen, buf)
    \/ StreamEnd
    \/ \E goesOn \in BOOLEAN : StreamError(goesOn)
    \/ PollTimerFire
    \/ \E outcome \in PollOutcomes : PollResponse(outcome)

Spec == Init /\ [][Next]_vars


\* ------------------------------------------------ findProjectsFromPath
\* Strings are sequences of characters, so that split('/') and startsWith
\* are computed on them.
MaxProjects == 3     \* entries of repoConfig.projects

Dot == <<".">>
ProjectDirectories ==
    { Dot, <<"a">>, <<"a", "/", "b">>, <<"a", "/", "b", "c">>, <<"d">> }
QueryPaths ==
    { <<"a">>, <<"a", "/", "b">>, <<"a", "/", "b", "/", "c">>,
      <<"a", "/", "b", "c">>, <<"c">>, <<"a", "\\", "b">> }

\* RepoProjectConfig[] of n entries: the id of an entry is its place in the list.
ProjectLists(n) ==
    { [i \in 1..n |-> [id |-> i, directory |-> dirs[i]]] : dirs \in [1..n -> ProjectDirectories] }

\* printEvents has not been called.
PrintEventsIdle ==
    /\ mode = "logs" /\ quiet = FALSE /\ limit = POSITIVE_INFINITY
    /\ onOpenCalled = FALSE /\ counter = 0 /\ o = 0
    /\ attempts = 0 /\ errors = NoErrors /\ lastErr = NoError
    /\ pc = "start"
    /\ result = "pending" /\ resultErr = NoError
    /\ stream = "none" /\ pending = 0 /\ poller = "none"
    /\ finishCalled = FALSE /\ settles = <<>> /\ refinished = FALSE
    /\ onOpenCount = 0 /\ fetchCount = 0 /\ onRetryCount = 0
    /\ eraseCalls = 0 /\ erased = 0
    /\ recs = <<>> /\ fwd = <<>>
    /\ errCount = 0 /\ errInAttempt = FALSE /\ successLogs = 0
    /\ bailAt = -1

\* String.prototype.split('/')
RECURSIVE split(_)
split(str) ==
    IF \A i \in 1..Len(str) : str[i] # "/"
    THEN <<str>>
    ELSE LET i == CHOOSE k \in 1..Len(str) :
                      str[k] = "/" /\ \A j \in 1..(k - 1) : str[j] # "/"
         IN <<SubSeq(str, 1, i - 1)>> \o split(SubSeq(str, i + 1, Len(str)))

\* String.prototype.startsWith
startsWith(str, prefix) ==
    Len(prefix) <= Len(str) /\ SubSeq(str, 1, Len(prefix)) = prefix

\* normalizePath of @vercel/build-utils: backslashes become slashes on Windows.
normalizePath(p, win) ==
    IF win THEN [i \in 1..Len(p) |-> IF p[i] = "\\" THEN "/" ELSE p[i]] ELSE p

sortByDirectory(a, b) == Len(split(b.directory)) - Len(split(a.directory))

\* Array.prototype.sort(sortByDirectory): a stable sort, equal elements keep
\* their input order.
RECURSIVE insertSorted(_, _)
insertSorted(sorted, x) ==
    IF sorted = <<>> THEN <<x>>
    ELSE IF sortByDirectory(Head(sorted), x) <= 0
         THEN <<Head(sorted)>> \o insertSorted(Tail(sorted), x)
         ELSE <<x>> \o sorted

RECURSIVE sort(_)
sort(list) ==
    IF list = <<>> THEN <<>>
    ELSE insertSorted(sort(SubSeq(list, 1, Len(list) - 1)), list[Len(list)])

\* Mutation of matchesDirectory: startsWith(project.directory), without the '/'.
matchesDirectory_StringPrefix(directory, normalizedPath) ==
    \/ directory = Dot
    \/ normalizedPath = directory
    \/ startsWith(normalizedPath, directory)

\* The callback of the first filter.
matchesDirectory(directory, normalizedPath) ==
    \/ directory = Dot
    \/ normalizedPath = directory
    \/ startsWith(normalizedPath, directory \o <<"/">>)

Undefined == [id |-> 0]

Returned(list) == [status |-> "returned", value |-> list]
TypeError == [status |-> "threw", value |-> <<>>]

\* Mutation of findProjectsFromPath: firstMatch.directory is read before the
\* second filter runs.
findProjectsFromPath_EagerFirstMatch(list, p, win) ==
    LET normalizedPath == normalizePath(p, win)
        matches == SelectSeq(sort(list),
                             LAMBDA project : matchesDirectory(project.directory, normalizedPath))
        firstMatch == IF matches = <<>> THEN Undefined ELSE matches[1]
    IN IF firstMatch = Undefined
       THEN TypeError
       ELSE Returned(SelectSeq(matches, LAMBDA match : match.directory = firstMatch.directory))

\* The second filter reads firstMatch.directory once per element of matches:
\* reading it of undefined throws a TypeError.
findProjectsFromPath(list, p, win) ==
    LET normalizedPath == normalizePath(p, win)
        matches == SelectSeq(sort(list),
                             LAMBDA project : matchesDirectory(project.directory, normalizedPath))
        firstMatch == IF matches = <<>> THEN Undefined ELSE matches[1]
    IN IF \E k \in 1..Len(matches) : firstMatch = Undefined
       THEN TypeError
       ELSE Returned(SelectSeq(matches, LAMBDA match : match.directory = firstMatch.directory))

InitFind ==
    /\ PrintEventsIdle
    /\ \E n \in 0..MaxProjects : projects \in ProjectLists(n)
    /\ path \in QueryPaths
    /\ isWin \in BOOLEAN
    /\ found = NotCalled
    /\ RootIdle /\ LinkIdle

CallFindProjectsFromPath ==
    /\ found.status = "idle"
    /\ found' = findProjectsFromPath(projects, path, isWin)
    /\ UNCHANGED <<printVars, projects, path, isWin, rootVars, linkVars>>

NextFind == CallFindProjectsFromPath

SpecFind == InitFind /\ [][NextFind]_vars

\* --------------------------------------------------------- findRepoRoot
\* A path is the sequence of its segments; an absolute path starts with "/".
MaxMarkers == 2      \* .vercel/repo.json and .git/config files on the filesystem

home == <<"/", "home", "u">>

Dirs ==
    { <<"/">>, <<"/", "home">>, home, <<"/", "home", "u", "p">>,
      <<"/", "home", "u", "p", "s">>, <<"/", "srv">> }

VERCEL_DIR == <<".vercel">>
VERCEL_DIR_REPO == <<"repo.json">>

isAbsolute(p) == p # <<>> /\ p[1] = "/"

\* The segment walk of path.normalize: '.' is dropped, '..' removes the segment
\* before it, is dropped at the root and kept at the front of a relative path.
RECURSIVE normalizeSegments(_, _, _)
normalizeSegments(res, rest, abs) ==
    IF rest = <<>> THEN res
    ELSE LET seg == Head(rest)
         IN IF seg = "."
            THEN normalizeSegments(res, Tail(rest), abs)
            ELSE IF seg = ".."
                 THEN IF res # <<>> /\ res[Len(res)] # ".."
                      THEN normalizeSegments(SubSeq(res, 1, Len(res) - 1), Tail(rest), abs)
                      ELSE IF abs
                           THEN normalizeSegments(res, Tail(rest), abs)
                           ELSE normalizeSegments(Append(res, ".."), Tail(rest), abs)
                 ELSE normalizeSegments(Append(res, seg), Tail(rest), abs)

\* path.normalize
normalize(p) ==
    IF isAbsolute(p)
    THEN <<"/">> \o normalizeSegments(<<>>, Tail(p), TRUE)
    ELSE LET res == normalizeSegments(<<>>, p, FALSE)
         IN IF res = <<>> THEN <<".">> ELSE res

\* path.join
join(a, b) == normalize(a \o b)

REPO_JSON_PATH == join(VERCEL_DIR, VERCEL_DIR_REPO)
GIT_CONFIG_PATH == normalize(<<".git", "config">>)

MarkerFiles ==
    {join(d, REPO_JSON_PATH) : d \in Dirs} \cup {join(d, GIT_CONFIG_PATH) : d \in Dirs}

\* Outcomes of lstat other than success and ENOENT: none, or the lstat of the
\* named file fails (EACCES, ...).
\* Content of a file that is not read.
Text == [kind |-> "text"]

LstatFaults == {"none", "repoJson", "gitConfig"}

Outcome(kind, value) == [kind |-> kind, value |-> value]

\* Mutation of loopBody: the comparison with home is left out.
loopBody_NoHomeCheck(cur, fs, fault) ==
    IF fault = "repoJson" THEN Outcome("throw", UndefinedPath)
    ELSE IF join(cur, REPO_JSON_PATH) \in fs THEN Outcome("return", cur)
    ELSE IF fault = "gitConfig" THEN Outcome("throw", UndefinedPath)
    ELSE IF join(cur, GIT_CONFIG_PATH) \in fs THEN Outcome("return", cur)
    ELSE Outcome("continue", UndefinedPath)

\* Mutation of loopBody: only .vercel/repo.json marks a repo root.
loopBody_ManifestOnly(cur, fs, fault) ==
    IF cur = home THEN Outcome("break", UndefinedPath)
    ELSE IF fault = "repoJson" THEN Outcome("throw", UndefinedPath)
    ELSE IF join(cur, REPO_JSON_PATH) \in fs THEN Outcome("return", cur)
    ELSE Outcome("continue", UndefinedPath)

\* The body of the for...of loop of findRepoRoot, for the directory cur.
loopBody(cur, fs, fault) ==
    IF cur = home THEN Outcome("break", UndefinedPath)
    ELSE IF fault = "repoJson" THEN Outcome("throw", UndefinedPath)
    ELSE IF join(cur, REPO_JSON_PATH) \in fs THEN Outcome("return", cur)
    ELSE IF fault = "gitConfig" THEN Outcome("throw", UndefinedPath)
    ELSE IF join(cur, GIT_CONFIG_PATH) \in fs THEN Outcome("return", cur)
    ELSE Outcome("continue", UndefinedPath)

\* traverseUpDirectories, after a yield: go up one directory.
goUp(cur) ==
    LET next == join(cur, <<"..">>)
    IN IF next = cur THEN UndefinedPath ELSE next

InitRoot ==
    /\ PrintEventsIdle /\ FindIdle
    /\ \E fs \in SUBSET MarkerFiles :
          /\ Cardinality(fs) <= MaxMarkers
          /\ files = [f \in fs |-> Text]
    /\ start \in Dirs
    /\ current = UndefinedPath /\ rpc = "idle" /\ rootPath = UndefinedPath
    /\ yielded = <<>>
    /\ LinkIdle

\* findRepoRoot(client, start): the generator yields normalize(start).
CallFindRepoRoot ==
    /\ rpc = "idle"
    /\ rpc' = "loop"
    /\ current' = normalize(start)
    /\ UNCHANGED <<printVars, findVars, files, start, rootPath, yielded, linkVars>>

\* One iteration of the loop, and the generator's step to the next directory.
LoopIteration(fault) ==
    /\ rpc = "loop"
    /\ LET out == loopBody(current, DOMAIN files, fault)
           next == goUp(current)
       IN IF out.kind = "throw"
          THEN rpc' = "threw" /\ UNCHANGED <<current, rootPath>>
          ELSE IF out.kind = "return"
               THEN rpc' = "returned" /\ rootPath' = out.value /\ UNCHANGED current
               ELSE IF out.kind = "break" \/ next = UndefinedPath
                    THEN rpc' = "returned" /\ rootPath' = UndefinedPath /\ UNCHANGED current
                    ELSE current' = next /\ UNCHANGED <<rpc, rootPath>>
    /\ UNCHANGED <<printVars, findVars, files, start, yielded, linkVars>>

NextRoot ==
    \/ CallFindRepoRoot
    \/ \E fault \in LstatFaults : LoopIteration(fault)

SpecRoot == InitRoot /\ [][NextRoot]_vars

\* ------------------------------------------------ traverseUpDirectories
\* The generator consumed on its own, to its end, for any start path.
MaxSegments == 2     \* segments of the start path, after the root of an absolute one
MaxYield == 7        \* directories taken from the generator

Segments == {"a", "b", ".", ".."}

SegmentSeqs(n) == UNION {[1..k -> Segments] : k \in 0..n}

\* Relative and absolute start paths, normalized or not; <<>> is ''.
StartPaths ==
    SegmentSeqs(MaxSegments) \cup {<<"/">> \o s : s \in SegmentSeqs(MaxSegments)}

InitTraverse ==
    /\ PrintEventsIdle /\ FindIdle /\ LinkIdle
    /\ files = <<>>
    /\ start \in StartPaths
    /\ current = UndefinedPath /\ rpc = "idle" /\ rootPath = UndefinedPath
    /\ yielded = <<>>

\* traverseUpDirectories(start), up to its first yield.
CallTraverseUpDirectories ==
    /\ rpc = "idle"
    /\ rpc' = "loop"
    /\ current' = normalize(start)
    /\ yielded' = <<normalize(start)>>
    /\ UNCHANGED <<printVars, findVars, files, start, rootPath, linkVars>>

\* The consumer asks for the next directory: the generator goes up one
\* directory and yields it, or ends.
NextDirectory ==
    /\ rpc = "loop"
    /\ Len(yielded) < MaxYield
    /\ LET next == goUp(current)
       IN IF next = UndefinedPath
          THEN rpc' = "returned" /\ current' = UndefinedPath /\ UNCHANGED yielded
          ELSE current' = next /\ yielded' = Append(yielded, next) /\ UNCHANGED rpc
    /\ UNCHANGED <<printVars, findVars, files, start, rootPath, linkVars>>

NextTraverse ==
    \/ CallTraverseUpDirectories
    \/ NextDirectory

SpecTraverse == InitTraverse /\ [][NextTraverse]_vars

\* ------------------------------------------------------- ensureRepoLink
repo == <<"/", "home", "u", "p">>

\* cwd of the calls: a subdirectory of the repository, or the home directory.
LinkStarts == { repo \o <<"s">>, home }

LinkMarkerFiles ==
    {join(d, REPO_JSON_PATH) : d \in {repo, repo \o <<"s">>}}
        \cup {join(d, GIT_CONFIG_PATH) : d \in {repo, repo \o <<"s">>}}

\* A manifest left by an earlier link, and one that does not parse.
OldConfig ==
    [kind |-> "config", orgId |-> "team_old", remoteName |-> "origin", projects |-> <<>>]
Corrupt == [kind |-> "corrupt"]

isManifest(p) == p[Len(p)] = "repo.json"

writeFile(fs, p, content) ==
    [f \in DOMAIN fs \cup {p} |-> IF f = p THEN content ELSE fs[f]]

\* Projects of the API: rootDirectory <<>> stands for null.
Project(id, name, rootDirectory) ==
    [newProject |-> FALSE, id |-> id, name |-> name, rootDirectory |-> rootDirectory]

Web == Project("prj_web", "web", <<>>)
Docs == Project("prj_docs", "docs", <<"apps", "docs">>)

\* What fetchPaginated delivers and what detectProjects finds (nothing when
\* the detection fails).
FetchedLists == { <<>>, <<Web>>, <<Web, Docs>> }
DetectedLists == { <<>>, <<<<"apps", "docs">>, <<"apps", "new">>>> }

\* remoteUrls: the remote names of .git/config, <<>> for undefined.
RemoteLists == { <<>>, <<"origin">>, <<"origin", "upstream">> }

basename(p) == p[Len(p)]

\* The value of a checkbox choice for a detected directory.
NewProject(rootDirectory) ==
    [newProject |-> TRUE, id |-> "none", name |-> basename(rootDirectory),
     rootDirectory |-> rootDirectory]

\* createProject(client, name)
createProject(name) == Project("prj_" \o name, name, <<>>)

Linked(l) == [status |-> "linked", value |-> l, error |-> "none"]
NotLinked == [status |-> "notLinked", value |-> UndefinedLink, error |-> "none"]
Thrown(message) == [status |-> "threw", value |-> UndefinedLink, error |-> message]

\* Mutation of getRepoLink: the catch of readJSON swallows every error.
getRepoLink_SwallowAll(fs, root, rootThrew, fault) ==
    IF rootThrew THEN Thrown("lstat")
    ELSE IF root = UndefinedPath THEN NotLinked
    ELSE LET repoConfigPath == join(join(root, VERCEL_DIR), VERCEL_DIR_REPO)
             link == [rootPath |-> root, repoConfig |-> UndefinedConfig,
                      repoConfigPath |-> repoConfigPath]
         IN IF repoConfigPath \notin DOMAIN fs THEN Linked(link)
            ELSE IF fault \/ fs[repoConfigPath].kind # "config" THEN Linked(link)
            ELSE Linked([link EXCEPT !.repoConfig = fs[repoConfigPath]])

\* Mutation of getRepoLink: if (!rootPath) return undefined is left out.
getRepoLink_NeverUndefined(fs, root, rootThrew, fault) ==
    IF rootThrew THEN Thrown("lstat")
    ELSE LET repoConfigPath == join(join(root, VERCEL_DIR), VERCEL_DIR_REPO)
             link == [rootPath |-> root, repoConfig |-> UndefinedConfig,
                      repoConfigPath |-> repoConfigPath]
         IN IF repoConfigPath \notin DOMAIN fs THEN Linked(link)
            ELSE IF fault \/ fs[repoConfigPath].kind # "config" THEN Thrown("readJSON")
            ELSE Linked([link EXCEPT !.repoConfig = fs[repoConfigPath]])

\* getRepoLink, once findRepoRoot has settled. fault: readJSON fails with an
\* error other than ENOENT.
getRepoLink(fs, root, rootThrew, fault) ==
    IF rootThrew THEN Thrown("lstat")
    ELSE IF root = UndefinedPath THEN NotLinked
    ELSE LET repoConfigPath == join(join(root, VERCEL_DIR), VERCEL_DIR_REPO)
             link == [rootPath |-> root, repoConfig |-> UndefinedConfig,
                      repoConfigPath |-> repoConfigPath]
         IN IF repoConfigPath \notin DOMAIN fs THEN Linked(link)
            ELSE IF fault \/ fs[repoConfigPath].kind # "config" THEN Thrown("readJSON")
            ELSE Linked([link EXCEPT !.repoConfig = fs[repoConfigPath]])

\* Mutation of shouldRelink: the repository is linked again on every call.
shouldRelink_Always(ow, repoConfig) == TRUE

\* if (overwrite || !repoConfig)
shouldRelink(ow, repoConfig) == ow \/ repoConfig = UndefinedConfig

\* The choices of the checkbox prompt: the fetched projects, then the detected
\* directories left.
choices == linkProjects \o [k \in 1..Len(detectedProjects) |-> NewProject(detectedProjects[k])]

\* The picked choices, in the order of the choices.
RECURSIVE pick(_, _, _)
pick(list, picks, k) ==
    IF k > Len(list) THEN <<>>
    ELSE (IF k \in picks THEN <<list[k]>> ELSE <<>>) \o pick(list, picks, k + 1)

\* Mutation of ToCreate: if (!selection.newProject) continue is left out.
ToCreate_ExistingToo == idx..Len(selected)

\* Indices from idx on of the selections createProject is still to be called for.
ToCreate == {k \in idx..Len(selected) : selected[k].newProject}

InitLink ==
    /\ PrintEventsIdle /\ FindIdle
    /\ \E fs \in SUBSET LinkMarkerFiles :
          /\ Cardinality(fs) <= MaxMarkers
          /\ files \in {f \in [fs -> {Text, OldConfig, Corrupt}] :
                           \A p \in fs : isManifest(p) <=> f[p] # Text}
    /\ start \in LinkStarts
    /\ current = UndefinedPath /\ rpc = "idle" /\ rootPath = UndefinedPath
    /\ yielded = <<>>
    /\ LinkIdle

\* ensureRepoLink(client, cwd, { yes, overwrite }), up to the first lstat of
\* findRepoRoot; also a second call, after a call that returned a link.
CallEnsureRepoLink(y, ow) ==
    /\ lpc = "idle" \/ (lpc = "done" /\ ~again /\ linkOutcome.status = "linked")
    /\ yes' = y /\ overwrite' = ow
    /\ again' = (lpc = "done")
    /\ lpc' = "getRepoLink"
    /\ rpc' = "loop" /\ current' = normalize(start) /\ rootPath' = UndefinedPath
    /\ repoLink' = UndefinedLink /\ remoteName' = "none"
    /\ linkProjects' = <<>> /\ detectedProjects' = <<>>
    /\ selected' = <<>> /\ idx' = 0
    /\ linkOutcome' = Pending
    /\ prompts' = 0 /\ networkCalls' = 0 /\ detections' = 0
    /\ created' = <<>> /\ writes' = <<>>
    /\ UNCHANGED <<printVars, findVars, files, start, yielded>>

\* getRepoLink settles; ensureRepoLink goes on to line 261.
GetRepoLink(fault) ==
    /\ lpc = "getRepoLink" /\ rpc \in {"returned", "threw"}
    /\ LET got == getRepoLink(files, rootPath, rpc = "threw", fault)
       IN IF got.status = "threw"
          THEN /\ lpc' = "done" /\ linkOutcome' = got
               /\ UNCHANGED <<repoLink, detections>>
          ELSE IF got.status = "notLinked"
               THEN /\ lpc' = "done"
                    /\ linkOutcome' =
                          Thrown("Could not determine Git repository root directory")
                    /\ UNCHANGED <<repoLink, detections>>
               ELSE /\ repoLink' = got.value
                    /\ IF shouldRelink(overwrite, got.value.repoConfig)
                       THEN /\ detections' = detections + 1
                            /\ lpc' = "confirm"
                            /\ UNCHANGED linkOutcome
                       ELSE /\ lpc' = "done"
                            /\ linkOutcome' = Linked(got.value)
                            /\ UNCHANGED detections
    /\ UNCHANGED <<printVars, findVars, rootVars, yes, overwrite, remoteName,
                   linkProjects, detectedProjects, selected, idx, prompts,
                   networkCalls, created, writes, again>>

\* let shouldLink = yes || (await confirm(...))
Confirm(answer) ==
    /\ lpc = "confirm"
    /\ yes => answer
    /\ prompts' = IF yes THEN prompts ELSE prompts + 1
    /\ IF yes \/ answer
       THEN lpc' = "selectOrg" /\ UNCHANGED linkOutcome
       ELSE lpc' = "done" /\ linkOutcome' = NotLinked
    /\ UNCHANGED <<printVars, findVars, rootVars, yes, overwrite, repoLink, remoteName,
                   linkProjects, detectedProjects, selected, idx, networkCalls,
                   detections, created, writes, again>>

\* const org = await selectOrg(client, ..., yes): the scopes are fetched, and
\* asked for unless yes.
SelectOrg ==
    /\ lpc = "selectOrg"
    /\ networkCalls' = networkCalls + 1
    /\ prompts' = IF yes THEN prompts ELSE prompts + 1
    /\ lpc' = "getRemoteUrls"
    /\ UNCHANGED <<printVars, findVars, rootVars, yes, overwrite, repoLink, remoteName,
                   linkProjects, detectedProjects, selected, idx, linkOutcome,
                   detections, created, writes, again>>

\* getRemoteUrls(join(rootPath, '.git/config')) and the choice of the remote.
GetRemoteUrls(remoteNames, answer) ==
    /\ lpc = "getRemoteUrls"
    /\ join(repoLink.rootPath, GIT_CONFIG_PATH) \notin DOMAIN files => remoteNames = <<>>
    /\ IF remoteNames = <<>>
       THEN answer = "none"
       ELSE \E k \in 1..Len(remoteNames) : answer = remoteNames[k]
    /\ Len(remoteNames) = 1 => answer = remoteNames[1]
    /\ IF remoteNames = <<>>
       THEN /\ lpc' = "done"
            /\ linkOutcome' = Thrown("Could not determine Git remote URLs")
            /\ UNCHANGED <<remoteName, prompts>>
       ELSE /\ remoteName' = answer
            /\ prompts' = IF Len(remoteNames) = 1 THEN prompts ELSE prompts + 1
            /\ lpc' = "fetch"
            /\ UNCHANGED linkOutcome
    /\ UNCHANGED <<printVars, findVars, rootVars, yes, overwrite, repoLink,
                   linkProjects, detectedProjects, selected, idx, networkCalls,
                   detections, created, writes, again>>

\* The Projects of the repo URL are fetched; the detected directories of
\* projects that exist already are dropped.
FetchProjects(fetched, detected) ==
    /\ lpc = "fetch"
    /\ networkCalls' = networkCalls + 1
    /\ linkProjects' = fetched
    /\ detectedProjects' =
          SelectSeq(detected,
                    LAMBDA dir : \A k \in 1..Len(fetched) : fetched[k].rootDirectory # dir)
    /\ lpc' = "select"
    /\ UNCHANGED <<printVars, findVars, rootVars, yes, overwrite, repoLink, remoteName,
                   selected, idx, linkOutcome, prompts, detections, created, writes,
                   again>>

\* Mutation of SelectProjects: if (selected.length === 0) is left out.
SelectProjects_NoEmptyCheck(picks) ==
    /\ lpc = "select"
    /\ prompts' = prompts + 1
    /\ selected' = pick(choices, picks, 1)
    /\ lpc' = "create" /\ idx' = 1 /\ UNCHANGED linkOutcome
    /\ UNCHANGED <<printVars, findVars, rootVars, yes, overwrite, repoLink, remoteName,
                   linkProjects, detectedProjects, networkCalls, detections, created,
                   writes, again>>

\* The checkbox prompt and if (selected.length === 0).
SelectProjects(picks) ==
    /\ lpc = "select"
    /\ prompts' = prompts + 1
    /\ selected' = pick(choices, picks, 1)
    /\ IF picks = {}
       THEN lpc' = "done" /\ linkOutcome' = NotLinked /\ UNCHANGED idx
       ELSE lpc' = "create" /\ idx' = 1 /\ UNCHANGED linkOutcome
    /\ UNCHANGED <<printVars, findVars, rootVars, yes, overwrite, repoLink, remoteName,
                   linkProjects, detectedProjects, networkCalls, detections, created,
                   writes, again>>

\* The create loop up to and including its next createProject call.
CreateProject(succeeds) ==
    /\ lpc = "create" /\ ToCreate # {}
    /\ LET i == CHOOSE k \in ToCreate : \A j \in ToCreate : k <= j
       IN /\ networkCalls' = networkCalls + 1
          /\ created' = Append(created, selected[i].name)
          /\ IF succeeds
             THEN /\ selected' = [selected EXCEPT ![i] = createProject(selected[i].name)]
                  /\ idx' = i + 1
                  /\ UNCHANGED <<lpc, linkOutcome>>
             ELSE /\ lpc' = "done" /\ linkOutcome' = Thrown("createProject")
                  /\ UNCHANGED <<selected, idx>>
    /\ UNCHANGED <<printVars, findVars, rootVars, yes, overwrite, repoLink, remoteName,
                   linkProjects, detectedProjects, prompts, detections, writes, again>>

\* The rest of the linking branch: the manifest is built from projects and
\* written, then the readme and the ignore file; the link is returned.
WriteRepoConfig ==
    /\ lpc = "create" /\ ToCreate = {}
    /\ LET repoConfig ==
               [kind |-> "config", orgId |-> "team_1", remoteName |-> remoteName,
                projects |-> [k \in 1..Len(linkProjects) |->
                                [id |-> linkProjects[k].id, name |-> linkProjects[k].name,
                                 directory |-> normalize(linkProjects[k].rootDirectory)]]]
           readme == join(join(repoLink.rootPath, VERCEL_DIR), <<"README.txt">>)
           ignore == join(repoLink.rootPath, <<".gitignore">>)
       IN /\ files' = writeFile(writeFile(writeFile(files, repoLink.repoConfigPath,
                                                    repoConfig),
                                          readme, Text),
                                ignore, Text)
          /\ writes' = writes \o <<repoLink.repoConfigPath, readme, ignore>>
          /\ repoLink' = [repoLink EXCEPT !.repoConfig = repoConfig]
          /\ linkOutcome' = Linked([repoLink EXCEPT !.repoConfig = repoConfig])
    /\ lpc' = "done"
    /\ UNCHANGED <<printVars, findVars, start, current, rpc, rootPath, yielded, yes, overwrite,
                   remoteName, linkProjects, detectedProjects, selected, idx, prompts,
                   networkCalls, detections, created, again>>

NextLink ==
    \/ \E y \in BOOLEAN, ow \in BOOLEAN : CallEnsureRepoLink(y, ow)
    \/ \E fault \in LstatFaults : LoopIteration(fault)
    \/ \E fault \in BOOLEAN : GetRepoLink(fault)
    \/ \E answer \in BOOLEAN : Confirm(answer)
    \/ SelectOrg
    \/ \E remoteNames \in RemoteLists, answer \in {"none", "origin", "upstream"} :
          GetRemoteUrls(remoteNames, answer)
    \/ \E fetched \in FetchedLists, detected \in DetectedLists :
          FetchProjects(fetched, detected)
    \/ \E picks \in SUBSET (1..Len(choices)) : SelectProjects(picks)
    \/ \E succeeds \in BOOLEAN : CreateProject(succeeds)
    \/ WriteRepoConfig

SpecLink == InitLink /\ [][NextLink]_vars

\* -------------------------------------------------------------- claims
Range(seq) == {seq[i] : i \in 1..Len(seq)}

ServerError == StatusError(503)

\* Every attempt so far got a feed response of 500 or above: no stream was
\* ever opened, nothing bailed, and every collected error is that status error.
OnlyServerErrors ==
    /\ stream = "none"
    /\ bailAt = -1
    /\ errors.counts[ServerError] = errors.len

\* C1: within one attempt the promise is settled at most once, and exactly
\* once as soon as finish has been called, however many completion signals
\* call finish afterwards.
C1_SettledExactlyOnce ==
    /\ Len(settles) <= 1
    /\ finishCalled <=> Len(settles) = 1

C1_Witness == refinished /\ Len(settles) = 1

\* C2: in deploy mode, once finish has taken effect no poll timer of the
\* attempt is pending.
C2_NoTimerAfterFinish == (mode = "deploy" /\ finishCalled) => poller # "timer"

\* C3: a non-ok feed response below 500 rejects printEvents at once with that
\* status error, without invoking onRetry or erasing lines, and no feed
\* request follows it.
C3_BailIsImmediate ==
    /\ [][\A status \in Statuses :
            (~ok(status) /\ status < 500 /\ FeedResponse(status)) =>
                /\ result' = "rejected"
                /\ resultErr' = StatusError(status)
                /\ onRetryCount' = onRetryCount
                /\ eraseCalls' = eraseCalls
                /\ o' = o]_vars
    /\ [](bailAt # -1 => (fetchCount = bailAt /\ pc = "done"))

C3_Witness == bailAt > 1 /\ result = "rejected" /\ resultErr = StatusError(404)

\* C4 (as claimed): with a response of 500 or above on every attempt, the
\* feed is requested at most 4 times in total.
C4_AtMostFourRequests == OnlyServerErrors => fetchCount <= 4

\* C4 (amended): with a response of 500 or above on every attempt, the feed
\* is requested at most 5 times in total, the first attempt and 4 retries,
\* and printEvents rejects only after the fifth.
C4_AtMostFiveRequests ==
    OnlyServerErrors =>
        /\ fetchCount <= 5
        /\ result = "rejected" => fetchCount = 5

C4_Witness == OnlyServerErrors /\ result = "rejected" /\ fetchCount = 5

\* C5 (as claimed): a failed status poll is terminal: printEvents rejects
\* with the poll error and no retry attempt follows.
C5_PollErrorTerminal ==
    errors.counts[PollError] > 0 =>
        (pc = "done" /\ result = "rejected" /\ resultErr = PollError)

\* C5 (amended): a status poll that fails before finish has taken effect ends
\* the stream and rejects the attempt with the poll error; the retry wrapper
\* treats it like any other failure: with a retry left onRetry runs and a new
\* attempt is scheduled, and printEvents rejects only when none is left.
C5_PollErrorRetried ==
    [][(~finishCalled /\ PollResponse("fail")) =>
          /\ stream' # "open"
          /\ settles' = <<"rejected">>
          /\ lastErr' = PollError
          /\ IF attempts <= Retries
             THEN pc' = "start" /\ result' = "pending" /\ onRetryCount' = onRetryCount + 1
             ELSE pc' = "done" /\ result' = "rejected"]_vars

C5_Witness == errors.counts[PollError] > 0 /\ pc = "fetching"

\* C6: a stream or body error seen while the attempt is live and a retry is
\* left fails the attempt through the retry wrapper; it never ends in a
\* successful resolution.
C6_StreamErrorRejects ==
    (errInAttempt /\ attempts <= Retries) => settles = <<"rejected">>

\* C7: with limit N and a connection that delivers at least N normal records,
\* exactly N records have been forwarded when the attempt resolves.
C7_LimitForwardsN ==
    (/\ limit < POSITIVE_INFINITY
     /\ settles = <<"resolved">>
     /\ Len(recs) >= limit
     /\ Range(recs) = {"stdout"}) => Len(fwd) = limit

\* The feed answered 500 or above on the first k attempts, then 2xx, and the
\* stream of that attempt ran to its 'end' without an error.
CleanAfterServerErrors ==
    /\ errors.len >= 1
    /\ errors.counts[ServerError] = errors.len
    /\ bailAt = -1
    /\ stream = "closed"
    /\ ~errInAttempt

\* C8 (as claimed): k responses of 500 or above, then a clean stream:
\* printEvents resolves after k retries with the erase performed k times.
C8_ErasePerRetry ==
    CleanAfterServerErrors =>
        (result = "resolved" /\ onRetryCount = errors.len /\ eraseCalls = errors.len)

\* C8 (amended): k responses of 500 or above, then a clean stream: printEvents
\* resolves after exactly k retries and k + 1 feed requests, and no erase is
\* performed, since no output unit was emitted before any of the retries.
C8_RetriesWithoutErase ==
    CleanAfterServerErrors =>
        /\ result = "resolved"
        /\ onRetryCount = errors.len
        /\ fetchCount = errors.len + 1
        /\ eraseCalls = 0

C8_Witness == CleanAfterServerErrors /\ errors.len = Retries /\ Len(fwd) > 0 /\ ~quiet

\* The value of counter when record i of the attempt was handled.
CounterAt(i) == counter - (Len(recs) - i)

\* C9: in deploy mode a build-complete record that arrives before the limit
\* is reached is not forwarded, the stream is ended, printEvents has resolved
\* and onOpen has been invoked exactly once.
C9_BuildCompleteFinishes ==
    mode = "deploy" =>
        \A i \in 1..Len(recs) :
            (recs[i] = "build-complete" /\ CounterAt(i) < limit) =>
                /\ i \notin Range(fwd)
                /\ stream # "open"
                /\ result = "resolved"
                /\ onOpenCount = 1

C9_Witness ==
    /\ mode = "deploy"
    /\ Len(recs) = 2 /\ recs[2] = "build-complete" /\ CounterAt(2) < limit
    /\ fwd = <<1>>
    /\ result = "resolved"

\* C10: the caller's onOpen is invoked at most once during one invocation,
\* whichever paths reach callOnOpenOnce and however many attempts are made.
C10_OnOpenAtMostOnce == onOpenCount <= 1

C10_Witness ==
    /\ onOpenCount = 1
    /\ errors.counts[ServerError] >= 1
    /\ finishCalled /\ errInAttempt /\ Len(fwd) >= 1


\* C11: whenever printEvents has resolved or rejected, onOpen has been invoked
\* exactly once.
C11_OnOpenOnceWhenSettled == result # "pending" => onOpenCount = 1

\* Every attempt started so far has failed with a retryable error.
EveryAttemptFailed == bailAt = -1 /\ errors.len = attempts

MaxCount == CHOOSE n \in 0..(Retries + 1) :
                /\ \A m \in Messages : errors.counts[m] <= n
                /\ \E m \in Messages : errors.counts[m] = n

C13_ForwardedInOrder ==
    /\ \A k \in 1..Len(fwd) : fwd[k] \in 1..Len(recs)
    /\ \A j, k \in 1..Len(fwd) : j < k => fwd[j] < fwd[k]

C13_Witness == Len(recs) = 2 /\ fwd = <<2>> /\ mode = "logs"

\* ------------------------------------------- claims: findProjectsFromPath
NormalizedPath == normalizePath(path, isWin)

\* The match of the contract: the directory is '.', or the path equals it, or
\* the path starts with the directory and a '/'.
Matches(project) ==
    \/ project.directory = Dot
    \/ NormalizedPath = project.directory
    \/ /\ Len(NormalizedPath) > Len(project.directory)
       /\ \A k \in 1..Len(project.directory) : NormalizedPath[k] = project.directory[k]
       /\ NormalizedPath[Len(project.directory) + 1] = "/"

Matching == {project \in Range(projects) : Matches(project)}

\* Directory depth: the segment count.
Depth(project) == Len(split(project.directory))

Deepest == {project \in Matching : \A other \in Matching : Depth(other) <= Depth(project)}

\* C14: findProjectsFromPath returns exactly the matching projects of maximum
\* depth among the matches, every tie at that depth included.
C14_DeepestMatchesReturned ==
    found.status # "idle" =>
        found.status = "returned" /\ Range(found.value) = Deepest

\* C15: when a project with a directory other than '.' matches the path, no
\* project with directory '.' is returned.
C15_SpecificBeatsRoot ==
    (found.status # "idle" /\ \E project \in Matching : project.directory # Dot) =>
        \A k \in 1..Len(found.value) : found.value[k].directory # Dot

\* Path-segment prefix: the segments of the directory start the segments of the path.
IsSegmentPrefix(directory, p) ==
    LET ds == split(directory)
        ps == split(p)
    IN Len(ds) <= Len(ps) /\ SubSeq(ps, 1, Len(ds)) = ds

\* C16: a returned project with a directory other than '.' has a directory
\* that is a path-segment prefix of the normalized path (the path equals it or
\* starts with it followed by '/'), never a mere string prefix.
C16_SegmentPrefixOnly ==
    \A k \in 1..Len(found.value) :
        \/ found.value[k].directory = Dot
        \/ /\ IsSegmentPrefix(found.value[k].directory, NormalizedPath)
           /\ Matches(found.value[k])

C16_Witness ==
    /\ found.status = "returned" /\ found.value # <<>>
    /\ \E project \in Range(projects) :
          /\ startsWith(NormalizedPath, project.directory)
          /\ ~IsSegmentPrefix(project.directory, NormalizedPath)
          /\ project \notin Range(found.value)

\* C17: with an empty project list, and with no matching project, the call
\* returns the empty sequence and raises no error.
C17_NoMatchReturnsEmpty ==
    /\ found.status # "threw"
    /\ (found.status = "returned" /\ Matching = {}) => found.value = <<>>

C17_Witness ==
    /\ found = Returned(<<>>)
    /\ projects # <<>> /\ path = <<"c">>

\* --------------------------------------------------- claims: findRepoRoot
\* The directory made of the first k segments of a path.
Prefix(p, k) == SubSeq(p, 1, k)

IsPrefix(d, p) == Len(d) <= Len(p) /\ Prefix(p, Len(d)) = d

HasMarker(d) ==
    \/ (d \o <<".vercel", "repo.json">>) \in DOMAIN files
    \/ (d \o <<".git", "config">>) \in DOMAIN files

\* start and its ancestors, up to the home directory excluded: the lengths k
\* of the prefixes of start with no home directory from k up to start.
VisitedBeforeHome ==
    {k \in 1..Len(start) : \A j \in k..Len(start) : Prefix(start, j) # home}

MarkedVisited == {k \in VisitedBeforeHome : HasMarker(Prefix(start, k))}

Closest == CHOOSE k \in MarkedVisited : \A j \in MarkedVisited : j <= k

ManifestPath == rootPath \o <<".vercel", "repo.json">>

\* The call has found a repo root whose manifest existed when the call began
\* (the call has not written it), and overwrite is false.
AlreadyLinked ==
    /\ lpc \in {"getRepoLink", "confirm", "selectOrg", "getRemoteUrls", "fetch",
                "select", "create", "done"}
    /\ rpc = "returned" /\ rootPath # UndefinedPath
    /\ ManifestPath \in DOMAIN files
    /\ \A k \in 1..Len(writes) : writes[k] # ManifestPath
    /\ ~overwrite

\* C20: a call of ensureRepoLink that finds an existing manifest at the repo
\* root, with overwrite false, shows no prompt, makes no network call, creates
\* no project and writes no file, and it returns rootPath, repoConfigPath and
\* the repoConfig read from the manifest (or rejects when the manifest cannot
\* be read); this holds of a second call after a successful link too.
C20_ExistingLinkReturned ==
    AlreadyLinked =>
        /\ prompts = 0 /\ networkCalls = 0 /\ created = <<>> /\ writes = <<>>
        /\ lpc \in {"getRepoLink", "done"}
        /\ lpc = "done" =>
              \/ linkOutcome = Thrown("readJSON")
              \/ /\ files[ManifestPath].kind = "config"
                 /\ linkOutcome = Linked([rootPath |-> rootPath,
                                         repoConfig |-> files[ManifestPath],
                                         repoConfigPath |-> ManifestPath])

C20_Witness ==
    /\ AlreadyLinked /\ again /\ lpc = "done"
    /\ linkOutcome.status = "linked"
    /\ linkOutcome.value.repoConfig.orgId = "team_1"
    /\ Len(linkOutcome.value.repoConfig.projects) = 2

\* --------------------------------------------- claims: printEvents, again
\* A step in which onRetry runs.
RetryStep == onRetryCount' = onRetryCount + 1

\* C25 (as claimed): on every retry, whatever the options, o + 1 lines are
\* erased and o is reset when o > 0, and nothing is erased when o = 0; o is 0
\* when a retry attempt starts.
C25_EraseOnEveryRetry ==
    /\ [][RetryStep =>
            IF o > 0
            THEN erased' = o + 1 /\ eraseCalls' = eraseCalls + 1 /\ o' = 0
            ELSE eraseCalls' = eraseCalls /\ o' = 0]_vars
    /\ []((pc = "start" /\ attempts >= 1) => o = 0)

\* C25 (amended): with quiet off, a retry erases o + 1 lines and resets o when
\* o > 0 and erases nothing when o = 0, so o is 0 when a retry attempt starts;
\* with quiet on, a retry erases nothing and leaves o as it is.
C25_EraseUnlessQuiet ==
    /\ [][RetryStep =>
            IF ~quiet /\ o > 0
            THEN erased' = o + 1 /\ eraseCalls' = eraseCalls + 1 /\ o' = 0
            ELSE eraseCalls' = eraseCalls /\ o' = o]_vars
    /\ []((pc = "start" /\ attempts >= 1 /\ ~quiet) => o = 0)
    /\ [](quiet => eraseCalls = 0)

C25_Witness ==
    /\ pc = "start" /\ attempts >= 1 /\ ~quiet
    /\ erased >= 2 /\ o = 0 /\ eraseCalls = 1

\* C26: in a mode other than deploy, a build-complete record that does not
\* hit the limit is forwarded to printEvent like any other record.
C26_BuildCompleteForwarded ==
    mode # "deploy" =>
        \A i \in 1..Len(recs) :
            (recs[i] = "build-complete" /\ CounterAt(i) # limit) => i \in Range(fwd)

\* C29: once finish has taken effect in an attempt, a record the decoder
\* delivers afterwards is not forwarded and does not change o.
C29_NothingForwardedAfterFinish ==
    [][(finishCalled /\ \E event \in Events, units \in Units, callsOpen \in BOOLEAN,
                           buf \in Buffered : StreamData(event, units, callsOpen, buf))
          => (fwd' = fwd /\ o' = o)]_vars

\* C30: in deploy mode 'Success! Build complete' is logged at most once per
\* attempt, and only by the finish of a build-complete record or of a status
\* poll that returned READY.
C30_SuccessOnlyWhenBuilt ==
    /\ [](mode = "deploy" => successLogs <= 1)
    /\ [][successLogs' > successLogs =>
            \/ PollResponse("READY")
            \/ \E units \in Units, callsOpen \in BOOLEAN, buf \in Buffered :
                  StreamData("build-complete", units, callsOpen, buf)]_vars

\* -------------------------------------------- claims: ensureRepoLink, again
\* C21: when the user declines the confirmation or selects no project, the
\* call returns undefined, and a call that returns undefined has written no
\* manifest, readme or ignore file and has created no project.
C21_NotLinkedTouchesNothing ==
    /\ [][(Confirm(FALSE) \/ (lpc = "select" /\ selected' = <<>>)) =>
             (lpc' = "done" /\ linkOutcome' = NotLinked /\ files' = files)]_vars
    /\ [](linkOutcome = NotLinked => (writes = <<>> /\ created = <<>>))

C21_Witness ==
    /\ lpc = "done" /\ linkOutcome = NotLinked
    /\ Len(choices) = 3 /\ selected = <<>>
    /\ writes = <<>> /\ created = <<>>

\* The selections that are not fetched projects: flagged as new, or created.
NewPicked == SelectSeq(selected, LAMBDA s : s \notin Range(linkProjects))

\* C22: createProject is called once for each selected new entry, in order,
\* and for nothing else; the manifest is written only after all of these calls
\* have returned, and not at all when one of them fails.
C22_CreatedBeforeWrite ==
    /\ Len(created) <= Len(NewPicked)
    /\ \A k \in 1..Len(created) : created[k] = NewPicked[k].name
    /\ writes # <<>> =>
          /\ Len(created) = Len(NewPicked)
          /\ \A k \in 1..Len(selected) : ~selected[k].newProject
    /\ linkOutcome = Thrown("createProject") => writes = <<>>

C22_Witness ==
    /\ writes # <<>> /\ lpc = "done"
    /\ Len(selected) = 3 /\ created = <<"new">>

\* C23: getRepoLink returns undefined exactly when findRepoRoot found no root;
\* otherwise it returns that root, <root>/.vercel/repo.json and the manifest,
\* the latter undefined exactly when the file does not exist, and it rejects
\* when the file exists but cannot be read or parsed.
C23_RepoLinkOfRoot ==
    [][(lpc = "getRepoLink" /\ lpc' # "getRepoLink" /\ rpc = "returned") =>
          IF rootPath = UndefinedPath
          THEN linkOutcome' = Thrown("Could not determine Git repository root directory")
          ELSE /\ linkOutcome'.error # "Could not determine Git repository root directory"
               /\ \/ /\ linkOutcome' = Thrown("readJSON")
                     /\ ManifestPath \in DOMAIN files
                  \/ /\ repoLink'.rootPath = rootPath
                     /\ repoLink'.repoConfigPath = ManifestPath
                     /\ repoLink'.repoConfig = UndefinedConfig <=>
                            ManifestPath \notin DOMAIN files
                     /\ ManifestPath \in DOMAIN files =>
                            /\ files[ManifestPath].kind = "config"
                            /\ repoLink'.repoConfig = files[ManifestPath]]_vars

C23_Witness ==
    /\ lpc = "done" /\ linkOutcome = Thrown("readJSON")
    /\ files[ManifestPath] = Corrupt

\* C24: when findRepoRoot finds no root, ensureRepoLink throws 'Could not
\* determine Git repository root directory' and has shown no prompt, made no
\* network call, started no project detection and written no file.
C24_NoRootFailsFirst ==
    (lpc \in {"getRepoLink", "done"} /\ rpc = "returned" /\ rootPath = UndefinedPath) =>
        /\ prompts = 0 /\ networkCalls = 0 /\ detections = 0
        /\ writes = <<>> /\ created = <<>>
        /\ lpc = "done" =>
              linkOutcome = Thrown("Could not determine Git repository root directory")

C24_Witness ==
    /\ start = home /\ lpc = "done"
    /\ linkOutcome = Thrown("Could not determine Git repository root directory")

\* C28: after a link the projects of the written manifest, and of the
\* returned repoConfig, are the selected entries: the selected existing
\* projects and the created ones, and no other.
C28_ManifestIsSelection ==
    (lpc = "done" /\ writes # <<>>) =>
        /\ {linkOutcome.value.repoConfig.projects[k].id :
                k \in 1..Len(linkOutcome.value.repoConfig.projects)}
             = {selected[k].id : k \in 1..Len(selected)}
        /\ files[ManifestPath] = linkOutcome.value.repoConfig

\* ------------------------------------------- claims: traverseUpDirectories
\* The working directory relative paths are resolved against.
cwd == <<"/", "home", "u", "p">>

\* The directory a path names.
Denotes(p) == IF isAbsolute(p) THEN normalize(p) ELSE normalize(cwd \o p)

Parent(d) == IF Len(d) = 1 THEN d ELSE SubSeq(d, 1, Len(d) - 1)

\* C27: whatever the start path, absolute or relative, the generator yields
\* normalize(start) first, then the parent of what it yielded before, never
\* the same directory twice, and it ends after yielding the filesystem root.
C27_FiniteAscent ==
    /\ yielded # <<>> => yielded[1] = normalize(start)
    /\ \A i \in 1..(Len(yielded) - 1) :
          Denotes(yielded[i + 1]) = Parent(Denotes(yielded[i]))
    /\ \A i, j \in 1..Len(yielded) :
          i # j => Denotes(yielded[i]) # Denotes(yielded[j])
    /\ rpc = "returned" => Denotes(yielded[Len(yielded)]) = <<"/">>

====
